---- MODULE Spec2Model ----
(***************************************************************************)
(* The scan / dedup / fetch / persist pipeline of download-tg:             *)
(*   app.py         DownloadFilesApp (orchestrator and workers)            *)
(*   repository.py  the SQLite download-history repository                 *)
(*   run.py         main(): one process run = one session                  *)
(*                                                                         *)
(* Strings are sequences of tokens.  The tokens "." and "/" are the two    *)
(* characters the path functions look at; every other token is a piece of  *)
(* text holding neither.  Message texts are sequences of characters.       *)
(***************************************************************************)
EXTENDS Integers, Sequences, FiniteSets, TLC

\* ------------------------------------------------------------------ bounds

\* Longest message stream of one session.
MaxMsgs == 2
\* Most coroutines the scan of one session schedules.
MaxTasks == 2
\* Largest configured download_at_same_time_size.
MaxCap == 2
\* Process runs in the several-runs specification.
MaxRuns == 2
\* Callers of the repository harness.
NumCallers == 2
\* Operations the harness callers invoke in all.
MaxOps == 3

\* Longest message text given to the keyword test on its own.
MaxText == 3

\* ----------------------------------------------------------- string model

None == "None"

Digits == <<"0", "1", "2", "3", "4", "5", "6", "7", "8", "9">>

RECURSIVE StrNat(_)
\* str(n) for n >= 0, one token per digit
StrNat(n) ==
    IF n < 10 THEN <<Digits[n + 1]>>
    ELSE StrNat(n \div 10) \o <<Digits[(n % 10) + 1]>>

\* str(n) for an int
StrInt(n) == IF n < 0 THEN <<"-">> \o StrNat(0 - n) ELSE StrNat(n)

\* s.rfind(ch), 1-based; 0 when ch does not occur
RFind(s, ch) ==
    LET hits == {i \in 1..Len(s) : s[i] = ch}
    IN  IF hits = {} THEN 0 ELSE CHOOSE i \in hits : \A j \in hits : j <= i

\* Splitext as it would be were the path split at its first "."
Splitext_FirstDot(p) ==
    LET dots == {i \in 1..Len(p) : p[i] = "."}
        first == CHOOSE i \in dots : \A j \in dots : i <= j
    IN  IF dots = {} THEN <<p, <<>>>>
        ELSE <<SubSeq(p, 1, first - 1), SubSeq(p, first, Len(p))>>

\* os.path.splitext: <<root, ext>>.  The extension starts at the last "."
\* after the last "/", unless only dots precede it in that component.
Splitext(p) ==
    LET sepIndex == RFind(p, "/")
        dotIndex == RFind(p, ".")
    IN  IF dotIndex > sepIndex
           /\ \E k \in (sepIndex + 1)..(dotIndex - 1) : p[k] # "."
        THEN <<SubSeq(p, 1, dotIndex - 1), SubSeq(p, dotIndex, Len(p))>>
        ELSE <<p, <<>>>>

\* os.path.basename: what follows the last "/"
Basename(p) == SubSeq(p, RFind(p, "/") + 1, Len(p))

\* os.path.join(a, b) for a b that is not absolute
PathJoin(a, b) ==
    IF a = <<>> \/ a[Len(a)] = "/" THEN a \o b ELSE a \o <<"/">> \o b

\* the process's working directory
Cwd == <<"/", "w">>

\* os.path.abspath of a path without "." or ".." components
Abspath(p) == IF p # <<>> /\ p[1] = "/" THEN p ELSE PathJoin(Cwd, p)

\* str.lower() on one character
LowerChar(c) ==
    CASE c = "H" -> "h"
      [] c = "I" -> "i"
      [] c = "Y" -> "y"
      [] c = "O" -> "o"
      [] OTHER -> c

\* Lower as it would be were the case kept
Lower_KeepsCase(s) == s

\* str.lower()
Lower(s) == [i \in 1..Len(s) |-> LowerChar(s[i])]

\* str.split(): the set of maximal runs of non-blank characters
SplitWords(s) ==
    {SubSeq(s, i, j) : <<i, j>> \in
        {ij \in (1..Len(s)) \X (1..Len(s)) :
            /\ ij[1] <= ij[2]
            /\ \A k \in ij[1]..ij[2] : s[k] # " "
            /\ (ij[1] = 1 \/ s[ij[1] - 1] = " ")
            /\ (ij[2] = Len(s) \/ s[ij[2] + 1] = " ")}}

\* ------------------------------------------------- configuration and input

\* Config.search.channel_id of the runs modelled (config.py Search)
ChannelIds == {42}

\* ids the resolved channel entity may carry: the configured one, or another
\* (the entity is whatever the client resolves the configured id to)
EntityIds == {42, 1042}

\* Config.search.key_words: absent / empty, or one required keyword
KeyWordSets == {{}, {<<"Y", "O">>}}

\* Config.storage.video_dir (relative) and audio_dir (absolute)
VideoDir == <<"v">>
AudioDir == <<"/", "a">>

\* The messages a stream is made of.  An attachment is <<>> (absent) or a
\* one-element sequence holding the document; a document whose record has
\* no id field has no id attribute (getattr falls back to 'unknown').
\* MsgBoth carries a video and an audio and the text "Hi yo"; MsgAudio
\* carries an audio only and no text.
MsgBoth ==
    [id |-> 7, text |-> <<"H", "i", " ", "y", "o">>,
     video |-> <<[id |-> 9, attributes |-> <<[kind |-> "video"]>>]>>,
     audio |-> <<[attributes |-> <<[kind |-> "audio"],
                                   [kind |-> "filename",
                                    file_name |-> <<"song", ".", "ogg">>]>>]>>]
MsgAudio ==
    [id |-> 8, text |-> <<>>,
     video |-> <<>>,
     audio |-> <<[id |-> 5, attributes |-> <<[kind |-> "audio"]>>]>>]

Messages == {MsgBoth, MsgAudio}

\* ------------------------------------------------------- app.py, pure part

\* DownloadFilesApp._extract_file_extension_or_get_default, for a default
\* extension without a leading point
ExtractFileExtensionOrGetDefault(obj, default_extension) ==
    LET named == {i \in 1..Len(obj.attributes) :
                    "file_name" \in DOMAIN obj.attributes[i]}
        first == CHOOSE i \in named : \A j \in named : i <= j
        original_filename ==
            IF named = {} THEN <<>> ELSE obj.attributes[first].file_name
        extension == Splitext(original_filename)[2]
    IN  IF original_filename = <<>> THEN default_extension
        ELSE IF extension = <<>> THEN default_extension
        ELSE IF extension[1] = "." THEN Tail(extension)
        ELSE extension

\* the f-string of _make_video_id / _make_audio_id for the attachment obj
MakeFileId(channel_id, msg, obj) ==
    StrInt(channel_id) \o <<".">> \o StrInt(msg.id) \o <<".">>
        \o (IF "id" \in DOMAIN obj THEN StrInt(obj.id) ELSE <<"unknown">>)

\* DownloadFilesApp._make_video_id
MakeVideoId(c, msg) == MakeFileId(c.channel_id, msg, msg.video[1])

\* DownloadFilesApp._make_audio_id
MakeAudioId(c, msg) == MakeFileId(c.channel_id, msg, msg.audio[1])

\* DownloadFilesApp._message_contains_all_keywords
MessageContainsAllKeywords(c, msg) ==
    IF c.key_words = {} THEN TRUE
    ELSE IF msg.text = <<>> THEN FALSE
    ELSE {Lower(w) : w \in c.key_words} \subseteq SplitWords(Lower(msg.text))

\* out_file of _download_and_process_file
OutFile(t) == PathJoin(t.directory, t.file_id \o <<".">> \o t.extension)

\* The coroutines one pass of the scan loop's body appends to tasks for
\* message msg, the pos-th of the stream.  A "continue" in the video part
\* ends the pass, so the audio part is reached only when the video part was
\* switched off or scheduled a video.
VideoTask(c, msg, pos) ==
    [pos |-> pos, message |-> msg.id, media |-> "video",
     extension |-> ExtractFileExtensionOrGetDefault(msg.video[1], <<"mp4">>),
     file_id |-> MakeVideoId(c, msg), directory |-> VideoDir]

AudioTask(c, msg, pos) ==
    [pos |-> pos, message |-> msg.id, media |-> "audio",
     extension |-> ExtractFileExtensionOrGetDefault(msg.audio[1], <<"mp3">>),
     file_id |-> MakeAudioId(c, msg), directory |-> AudioDir]

AudioPart(c, ids, msg, pos) ==
    IF ~c.download_audio THEN <<>>
    ELSE IF msg.audio = <<>> \/ ~MessageContainsAllKeywords(c, msg) THEN <<>>
    ELSE IF MakeAudioId(c, msg) \in ids THEN <<>>
    ELSE <<AudioTask(c, msg, pos)>>

ScanBody(c, ids, msg, pos) ==
    IF c.download_video
    THEN IF msg.video = <<>> \/ ~MessageContainsAllKeywords(c, msg) THEN <<>>
         ELSE IF MakeVideoId(c, msg) \in ids THEN <<>>
         ELSE <<VideoTask(c, msg, pos)>> \o AudioPart(c, ids, msg, pos)
    ELSE AudioPart(c, ids, msg, pos)

\* --------------------------------------------------- repository.py, pure

\* what _get_video_ids_sync makes of the rows it selects
IdsOfRows(rows, channel_id) ==
    {Splitext(Basename(r.filename))[1] :
        r \in {q \in rows : q.channel_id = channel_id}}

\* ------------------------------------------------------------------ state

VARIABLES
    cfg,            \* the loaded Config: download_video, download_audio,
                    \* key_words, download_at_same_time_size, channel_id
    entity_id,      \* the id of the entity get_entity resolves the channel to
    run,            \* the number of this process run (session)
    mainpc,         \* where main() / download_and_save stands
    abort,          \* the session-start step that failed, or None
    existing_ids,   \* download_and_save's existing_ids
    channel,        \* download_and_save's channel: <<>> or <<[id |-> ..]>>
    stream,         \* the messages iter_messages has yielded in this run
    scan,           \* the scan loop: "idle", "open", "ended", "raised"
    tasks,          \* download_and_save's tasks, one record per coroutine
    wpc,            \* per task: "pending", "downloading", "writing", "hung",
                    \* or the value returned: "True", "False"
    semaphore,      \* the value of the asyncio.Semaphore
    download_count, \* the summary's download_count (0 until it is computed)
    files,          \* the absolute paths at which a file exists
    remove_errors,  \* the tasks that logged "Error removing partially
                    \* downloaded file"
    db,             \* the committed rows of the downloads table
    txn,            \* rows inserted on the connection and not yet committed
    _conn,          \* the repository's _conn: NoConn or a connection handle
    _lock,          \* the repository's _lock: <<>> or <<holder>>
    opened,         \* the connection handles that are open
    connSeq,        \* connection handles created by this process so far
    rcall,          \* per caller: its call into the repository
    connectRuns,    \* runs of _connect_and_init_db since the repository was
                    \* constructed or last closed
    db0,            \* db as it was when this run started
    prev,           \* the previous run: its stream and whether it was clean
    ops,            \* operations the harness callers have invoked so far
    applied         \* the last call of a function applied on its own: its
                    \* name, its arguments and what it returned

vars ==
    <<cfg, entity_id, run, mainpc, abort, existing_ids, channel, stream, scan,
      tasks, wpc, semaphore, download_count, files, remove_errors, db, txn,
      _conn, _lock, opened, connSeq, rcall, connectRuns, db0, prev, ops,
      applied>>

appVars ==
    <<cfg, entity_id, run, mainpc, abort, existing_ids, channel, stream, scan,
      tasks, wpc, semaphore, download_count, files, remove_errors, db0, prev>>

\* self._conn = None
NoConn == 0

\* the caller id of main(); task w calls the repository as caller w
Main == 0

MaxWorkers == MaxTasks

CallerIds == 0..(IF MaxWorkers > NumCallers THEN MaxWorkers ELSE NumCallers)

\* no function has been applied on its own
NotApplied == [fn |-> "-", args |-> <<>>, out |-> <<>>]

IdleCall ==
    [pc |-> "idle", op |-> "-", conn |-> NoConn, arg |-> <<>>,
     ret |-> "-", val |-> {}]

Workers == 1..Len(tasks)

\* ------------------------------------------------- repository.py, actions

\* EnterLock as it would be were _lock not taken: every caller goes on as
\* if the lock were free
EnterLock_Unlocked(c, op, arg) ==
    LET call == [IdleCall EXCEPT !.op = op, !.arg = arg]
    IN  IF _conn = NoConn
        THEN IF op = "close"
             THEN /\ rcall' = [rcall EXCEPT ![c] =
                                 [call EXCEPT !.pc = "ret", !.ret = "ok"]]
                  /\ UNCHANGED <<_lock, connectRuns>>
             ELSE /\ rcall' = [rcall EXCEPT ![c] =
                                 [call EXCEPT !.pc = "connecting"]]
                  /\ _lock' = <<c>>
                  /\ connectRuns' = connectRuns + 1
        ELSE IF op = "close"
             THEN /\ rcall' = [rcall EXCEPT ![c] =
                                 [call EXCEPT !.pc = "closing", !.conn = _conn]]
                  /\ _lock' = <<c>>
                  /\ UNCHANGED connectRuns
             ELSE /\ rcall' = [rcall EXCEPT ![c] =
                                 IF op = "open"
                                 THEN [call EXCEPT !.pc = "ret", !.ret = "ok",
                                                   !.conn = _conn]
                                 ELSE [call EXCEPT !.pc = "thread",
                                                   !.conn = _conn]]
                  /\ UNCHANGED <<_lock, connectRuns>>

\* The part of a repository coroutine that runs without suspending once it
\* is (re)entered at "async with self._lock": _get_connection for open_conn,
\* write and get_video_ids, the body of close_conn for close.
EnterLock(c, op, arg) ==
    LET call == [IdleCall EXCEPT !.op = op, !.arg = arg]
    IN  IF _lock # <<>>
        THEN /\ rcall' = [rcall EXCEPT ![c] = [call EXCEPT !.pc = "lock_wait"]]
             /\ UNCHANGED <<_lock, connectRuns>>
        ELSE IF _conn = NoConn
        THEN IF op = "close"
             THEN /\ rcall' = [rcall EXCEPT ![c] =
                                 [call EXCEPT !.pc = "ret", !.ret = "ok"]]
                  /\ UNCHANGED <<_lock, connectRuns>>
             ELSE /\ rcall' = [rcall EXCEPT ![c] =
                                 [call EXCEPT !.pc = "connecting"]]
                  /\ _lock' = <<c>>
                  /\ connectRuns' = connectRuns + 1
        ELSE IF op = "close"
             THEN /\ rcall' = [rcall EXCEPT ![c] =
                                 [call EXCEPT !.pc = "closing", !.conn = _conn]]
                  /\ _lock' = <<c>>
                  /\ UNCHANGED connectRuns
             ELSE /\ rcall' = [rcall EXCEPT ![c] =
                                 IF op = "open"
                                 THEN [call EXCEPT !.pc = "ret", !.ret = "ok",
                                                   !.conn = _conn]
                                 ELSE [call EXCEPT !.pc = "thread",
                                                   !.conn = _conn]]
                  /\ UNCHANGED <<_lock, connectRuns>>

\* a caller waiting for the lock gets it
R_LockGranted(c) ==
    /\ rcall[c].pc = "lock_wait"
    /\ _lock = <<>>
    /\ EnterLock(c, rcall[c].op, rcall[c].arg)
    /\ UNCHANGED <<appVars, db, txn, _conn, opened, connSeq, ops, applied>>

\* _connect_and_init_db returns a connection; _get_connection stores it,
\* releases the lock and returns it, and write / get_video_ids go on to
\* their own to_thread call
R_ConnectOk(c) ==
    /\ rcall[c].pc = "connecting"
    /\ connSeq' = connSeq + 1
    /\ opened' = opened \cup {connSeq + 1}
    /\ _conn' = connSeq + 1
    /\ _lock' = <<>>
    /\ rcall' = [rcall EXCEPT ![c] =
                    IF rcall[c].op = "open"
                    THEN [@ EXCEPT !.pc = "ret", !.ret = "ok",
                                   !.conn = connSeq + 1]
                    ELSE [@ EXCEPT !.pc = "thread", !.conn = connSeq + 1]]
    /\ UNCHANGED <<appVars, db, txn, connectRuns, ops, applied>>

\* _connect_and_init_db raises: the lock is released, _conn stays None and
\* the exception reaches the caller
R_ConnectRaise(c) ==
    /\ rcall[c].pc = "connecting"
    /\ _lock' = <<>>
    /\ rcall' = [rcall EXCEPT ![c] = [@ EXCEPT !.pc = "ret", !.ret = "raised"]]
    /\ UNCHANGED <<appVars, db, txn, _conn, opened, connSeq, connectRuns,
                   ops, applied>>

\* _write_sync, cursor.execute(INSERT): the row joins the connection's open
\* transaction
R_Insert(c) ==
    /\ rcall[c].pc = "thread" /\ rcall[c].op = "write"
    /\ rcall[c].conn \in opened
    /\ \A r \in db \cup txn : r.id # rcall[c].arg[1].id
    /\ txn' = txn \cup {rcall[c].arg[1]}
    /\ rcall' = [rcall EXCEPT ![c] = [@ EXCEPT !.pc = "inserted"]]
    /\ UNCHANGED <<appVars, db, _conn, _lock, opened, connSeq, connectRuns,
                   ops, applied>>

\* _write_sync, conn.commit(): everything inserted on the connection since
\* its last commit becomes durable
R_Commit(c) ==
    /\ rcall[c].pc = "inserted"
    /\ rcall[c].conn \in opened
    /\ db' = db \cup txn
    /\ txn' = {}
    /\ rcall' = [rcall EXCEPT ![c] = [@ EXCEPT !.pc = "ret", !.ret = "ok"]]
    /\ UNCHANGED <<appVars, _conn, _lock, opened, connSeq, connectRuns, ops,
                   applied>>

\* _write_sync raises, at the INSERT (closed connection, duplicate id, I/O)
\* or at the commit
R_WriteRaise(c) ==
    /\ rcall[c].pc \in {"thread", "inserted"} /\ rcall[c].op = "write"
    /\ rcall' = [rcall EXCEPT ![c] = [@ EXCEPT !.pc = "ret", !.ret = "raised"]]
    /\ UNCHANGED <<appVars, db, txn, _conn, _lock, opened, connSeq,
                   connectRuns, ops, applied>>

\* _get_video_ids_sync returns the identifiers of the channel's rows
R_Select(c) ==
    /\ rcall[c].pc = "thread" /\ rcall[c].op = "get_ids"
    /\ rcall[c].conn \in opened
    /\ rcall' = [rcall EXCEPT ![c] =
                    [@ EXCEPT !.pc = "ret", !.ret = "ok",
                              !.val = IdsOfRows(db \cup txn, rcall[c].arg[1])]]
    /\ UNCHANGED <<appVars, db, txn, _conn, _lock, opened, connSeq,
                   connectRuns, ops, applied>>

\* _get_video_ids_sync raises
R_SelectRaise(c) ==
    /\ rcall[c].pc = "thread" /\ rcall[c].op = "get_ids"
    /\ rcall' = [rcall EXCEPT ![c] = [@ EXCEPT !.pc = "ret", !.ret = "raised"]]
    /\ UNCHANGED <<appVars, db, txn, _conn, _lock, opened, connSeq,
                   connectRuns, ops, applied>>

\* R_CloseDone as it would be were self._conn not set to None after the close
R_CloseDone_KeepsConn(c) ==
    /\ rcall[c].pc = "closing"
    /\ opened' = opened \ {_conn}
    /\ txn' = {}
    /\ _lock' = <<>>
    /\ connectRuns' = 0
    /\ rcall' = [rcall EXCEPT ![c] = [@ EXCEPT !.pc = "ret", !.ret = "ok"]]
    /\ UNCHANGED <<appVars, db, _conn, connSeq, ops, applied>>

\* close_conn: self._conn.close() returns (the open transaction is rolled
\* back), _conn is set to None and the lock released
R_CloseDone(c) ==
    /\ rcall[c].pc = "closing"
    /\ opened' = opened \ {_conn}
    /\ txn' = {}
    /\ _conn' = NoConn
    /\ _lock' = <<>>
    /\ connectRuns' = 0
    /\ rcall' = [rcall EXCEPT ![c] = [@ EXCEPT !.pc = "ret", !.ret = "ok"]]
    /\ UNCHANGED <<appVars, db, connSeq, ops, applied>>

RepoStep(c) ==
    \/ R_LockGranted(c)
    \/ R_ConnectOk(c)
    \/ R_ConnectRaise(c)
    \/ R_Insert(c)
    \/ R_Commit(c)
    \/ R_WriteRaise(c)
    \/ R_Select(c)
    \/ R_SelectRaise(c)
    \/ R_CloseDone(c)

\* -------------------------------------------------------- app.py, workers

\* the DownloadedFile a worker builds for its task
FileRecord(w) ==
    [id |-> <<run, w>>,
     channel_id |-> channel[1].id,
     message_id |-> StrInt(tasks[w].message),
     text |-> stream[tasks[w].pos].text,
     filename |-> Abspath(OutFile(tasks[w]))]

\* where task w's out_file lies on disk
Dest(w) == Abspath(OutFile(tasks[w]))

\* Cleanup as it would be were os.remove never called
Cleanup_Skipped(fs, path, removed) == fs

\* the except branch's cleanup: os.path.exists, then os.remove, which either
\* removes the file or raises OSError (logged)
Cleanup(fs, path, removed) ==
    IF path \in fs /\ removed THEN fs \ {path} ELSE fs

\* whether that cleanup logs the OSError of os.remove
RemoveFails(fs, path, removed) == path \in fs /\ ~removed

\* W_Acquire as it would be were the permit count not consulted
W_Acquire_Unlimited(w) ==
    /\ mainpc = "gather"
    /\ wpc[w] = "pending"
    /\ semaphore' = semaphore - 1
    /\ wpc' = [wpc EXCEPT ![w] = "downloading"]
    /\ UNCHANGED <<cfg, entity_id, remove_errors, run, mainpc, abort,
                   existing_ids, channel, stream, scan, tasks, download_count,
                   files, db0, prev, db, txn, _conn, _lock, opened, connSeq,
                   rcall, connectRuns, ops, applied>>

\* W_Acquire as it would be were each coroutine started when it is appended
\* (asyncio.create_task) and not by gather
W_Acquire_Eager(w) ==
    /\ mainpc \in {"scan", "gather"}
    /\ wpc[w] = "pending"
    /\ semaphore > 0
    /\ semaphore' = semaphore - 1
    /\ wpc' = [wpc EXCEPT ![w] = "downloading"]
    /\ UNCHANGED <<cfg, entity_id, remove_errors, run, mainpc, abort,
                   existing_ids, channel, stream, scan, tasks, download_count,
                   files, db0, prev, db, txn, _conn, _lock, opened, connSeq,
                   rcall, connectRuns, ops, applied>>

\* "async with semaphore": a task started by gather takes a permit
W_Acquire(w) ==
    /\ mainpc = "gather"
    /\ wpc[w] = "pending"
    /\ semaphore > 0
    /\ semaphore' = semaphore - 1
    /\ wpc' = [wpc EXCEPT ![w] = "downloading"]
    /\ UNCHANGED <<cfg, entity_id, remove_errors, run, mainpc, abort,
                   existing_ids, channel, stream, scan, tasks, download_count,
                   files, db0, prev, db, txn, _conn, _lock, opened, connSeq,
                   rcall, connectRuns, ops, applied>>

\* download_media returns: the file is at out_file, the record is built and
\* repository.write is entered
W_DownloadOk(w) ==
    /\ wpc[w] = "downloading"
    /\ files' = files \cup {Dest(w)}
    /\ wpc' = [wpc EXCEPT ![w] = "writing"]
    /\ EnterLock(w, "write", <<FileRecord(w)>>)
    /\ UNCHANGED <<cfg, entity_id, remove_errors, run, mainpc, abort,
                   existing_ids, channel, stream, scan, tasks, semaphore,
                   download_count, db0, prev, db, txn, _conn, opened, connSeq,
                   ops, applied>>

\* W_DownloadRaise as it would be without the try / except: the exception
\* leaves the worker and gather re-raises it into download_and_save
W_DownloadRaise_Escapes(w, partial, removed) ==
    /\ wpc[w] = "downloading"
    /\ files' = (IF partial THEN files \cup {Dest(w)} ELSE files)
    /\ wpc' = [wpc EXCEPT ![w] = "raised"]
    /\ semaphore' = semaphore + 1
    /\ mainpc' = "finally"
    /\ UNCHANGED <<cfg, entity_id, remove_errors, run, abort, existing_ids,
                   channel, stream, scan, tasks, download_count, db0, prev,
                   db, txn, _conn, _lock, opened, connSeq, rcall,
                   connectRuns, ops, applied>>

\* download_media raises, having left a partial file or not: the except
\* branch cleans up and the worker returns False, releasing its permit
W_DownloadRaise(w, partial, removed) ==
    /\ wpc[w] = "downloading"
    /\ LET left == IF partial THEN files \cup {Dest(w)} ELSE files
       IN  /\ files' = Cleanup(left, Dest(w), removed)
           /\ remove_errors' =
                 IF RemoveFails(left, Dest(w), removed)
                 THEN remove_errors \cup {w} ELSE remove_errors
    /\ wpc' = [wpc EXCEPT ![w] = "False"]
    /\ semaphore' = semaphore + 1
    /\ UNCHANGED <<cfg, entity_id, run, mainpc, abort, existing_ids, channel,
                   stream, scan, tasks, download_count, db0, prev, db, txn,
                   _conn, _lock, opened, connSeq, rcall, connectRuns, ops,
                   applied>>

\* download_media never returns
W_DownloadHang(w) ==
    /\ wpc[w] = "downloading"
    /\ wpc' = [wpc EXCEPT ![w] = "hung"]
    /\ UNCHANGED <<cfg, entity_id, remove_errors, run, mainpc, abort,
                   existing_ids, channel, stream, scan, tasks, semaphore,
                   download_count, files, db0, prev, db, txn, _conn, _lock,
                   opened, connSeq, rcall, connectRuns, ops, applied>>

\* repository.write has returned: the worker returns True
W_WriteOk(w) ==
    /\ wpc[w] = "writing"
    /\ rcall[w].pc = "ret" /\ rcall[w].ret = "ok"
    /\ rcall' = [rcall EXCEPT ![w] = IdleCall]
    /\ wpc' = [wpc EXCEPT ![w] = "True"]
    /\ semaphore' = semaphore + 1
    /\ UNCHANGED <<cfg, entity_id, remove_errors, run, mainpc, abort,
                   existing_ids, channel, stream, scan, tasks, download_count,
                   files, db0, prev, db, txn, _conn, _lock, opened, connSeq,
                   connectRuns, ops, applied>>

\* repository.write has raised: cleanup, and the worker returns False
W_WriteRaised(w, removed) ==
    /\ wpc[w] = "writing"
    /\ rcall[w].pc = "ret" /\ rcall[w].ret = "raised"
    /\ rcall' = [rcall EXCEPT ![w] = IdleCall]
    /\ files' = Cleanup(files, Dest(w), removed)
    /\ remove_errors' =
          IF RemoveFails(files, Dest(w), removed)
          THEN remove_errors \cup {w} ELSE remove_errors
    /\ wpc' = [wpc EXCEPT ![w] = "False"]
    /\ semaphore' = semaphore + 1
    /\ UNCHANGED <<cfg, entity_id, run, mainpc, abort, existing_ids, channel,
                   stream, scan, tasks, download_count, db0, prev, db, txn,
                   _conn, _lock, opened, connSeq, connectRuns, ops, applied>>

\* --------------------------------------------- app.py / run.py, the session

repoVars == <<db, txn, _conn, _lock, opened, connSeq, rcall, connectRuns>>

\* main() builds the repository and the app; download_and_save enters
\* open_conn
M_Start ==
    /\ mainpc = "start"
    /\ mainpc' = "open_conn"
    /\ EnterLock(Main, "open", <<>>)
    /\ UNCHANGED <<cfg, entity_id, remove_errors, run, abort, existing_ids,
                   channel, stream, scan, tasks, wpc, semaphore,
                   download_count, files, db0, prev, db, txn, _conn, opened,
                   connSeq, ops, applied>>

\* open_conn has returned: get_files_ids is entered; or it has raised: the
\* session is aborted
M_OpenReturn ==
    /\ mainpc = "open_conn"
    /\ rcall[Main].pc = "ret"
    /\ IF rcall[Main].ret = "ok"
       THEN /\ mainpc' = "get_files_ids"
            /\ EnterLock(Main, "get_ids", <<cfg.channel_id>>)
            /\ UNCHANGED abort
       ELSE /\ mainpc' = "finally"
            /\ abort' = "repository"
            /\ rcall' = [rcall EXCEPT ![Main] = IdleCall]
            /\ UNCHANGED <<_lock, connectRuns>>
    /\ UNCHANGED <<cfg, entity_id, remove_errors, run, existing_ids, channel,
                   stream, scan, tasks, wpc, semaphore, download_count, files,
                   db0, prev, db, txn, _conn, opened, connSeq, ops, applied>>

\* get_files_ids has returned: the semaphore and the task list are made and
\* the client is started; or it has raised: the session is aborted
M_IdsReturn ==
    /\ mainpc = "get_files_ids"
    /\ rcall[Main].pc = "ret"
    /\ rcall' = [rcall EXCEPT ![Main] = IdleCall]
    /\ IF rcall[Main].ret = "ok"
       THEN /\ existing_ids' = rcall[Main].val
            /\ semaphore' = cfg.download_at_same_time_size
            /\ mainpc' = "client"
            /\ UNCHANGED abort
       ELSE /\ mainpc' = "finally"
            /\ abort' = "identifiers"
            /\ UNCHANGED <<existing_ids, semaphore>>
    /\ UNCHANGED <<cfg, entity_id, remove_errors, run, channel, stream, scan,
                   tasks, wpc, download_count, files, db0, prev, db, txn,
                   _conn, _lock, opened, connSeq, connectRuns, ops, applied>>

\* M_Connect as it would be were the failure logged and not returned from
M_Connect_Continues(outcome) ==
    /\ mainpc = "client"
    /\ channel' = <<[id |-> entity_id]>>
    /\ scan' = "open"
    /\ mainpc' = "scan"
    /\ abort' = (IF outcome = "ok" THEN abort ELSE outcome)
    /\ UNCHANGED <<cfg, entity_id, remove_errors, run, existing_ids, stream,
                   tasks, wpc, semaphore, download_count, files, db0, prev,
                   repoVars, ops, applied>>

\* "async with self._client" and get_entity: both succeed and the scan
\* begins, or one of them raises and the session is aborted (the first
\* through main's except, the second through the return)
M_Connect(outcome) ==
    /\ mainpc = "client"
    /\ IF outcome = "ok"
       THEN /\ channel' = <<[id |-> entity_id]>>
            /\ scan' = "open"
            /\ mainpc' = "scan"
            /\ UNCHANGED abort
       ELSE /\ abort' = outcome
            /\ mainpc' = "finally"
            /\ UNCHANGED <<channel, scan>>
    /\ UNCHANGED <<cfg, entity_id, remove_errors, run, existing_ids, stream,
                   tasks, wpc, semaphore, download_count, files, db0, prev,
                   repoVars, ops, applied>>

\* the messages iter_messages may yield next: any, or in a repeated run the
\* one the previous run saw at this place
NextMessages ==
    IF ~prev.replay THEN Messages
    ELSE IF Len(stream) < Len(prev.stream)
    THEN {prev.stream[Len(stream) + 1]}
    ELSE {}

\* M_ScanNext as it would be were the identifiers it schedules added to
\* existing_ids
M_ScanNext_Remembers(msg) ==
    /\ mainpc = "scan"
    /\ Len(stream) < MaxMsgs
    /\ msg \in NextMessages
    /\ stream' = Append(stream, msg)
    /\ LET new == ScanBody(cfg, existing_ids, msg, Len(stream) + 1)
       IN  /\ Len(tasks) + Len(new) <= MaxTasks
           /\ tasks' = tasks \o new
           /\ wpc' = wpc \o [i \in 1..Len(new) |-> "pending"]
           /\ existing_ids' =
                 existing_ids \cup {new[i].file_id : i \in 1..Len(new)}
    /\ UNCHANGED <<cfg, entity_id, remove_errors, run, mainpc, abort,
                   channel, scan, semaphore, download_count, files, db0,
                   prev, repoVars, ops, applied>>

\* one pass of the "async for" body
M_ScanNext(msg) ==
    /\ mainpc = "scan"
    /\ Len(stream) < MaxMsgs
    /\ msg \in NextMessages
    /\ stream' = Append(stream, msg)
    /\ LET new == ScanBody(cfg, existing_ids, msg, Len(stream) + 1)
       IN  /\ Len(tasks) + Len(new) <= MaxTasks
           /\ tasks' = tasks \o new
           /\ wpc' = wpc \o [i \in 1..Len(new) |-> "pending"]
    /\ UNCHANGED <<cfg, entity_id, remove_errors, run, mainpc, abort,
                   existing_ids, channel, scan, semaphore, download_count,
                   files, db0, prev, repoVars, ops, applied>>

\* after the loop: nothing to do, or gather starts every task
AfterScan == IF tasks = <<>> THEN "finally" ELSE "gather"

\* the stream is exhausted
M_ScanEnd ==
    /\ mainpc = "scan"
    /\ prev.replay => Len(stream) = Len(prev.stream)
    /\ scan' = "ended"
    /\ mainpc' = AfterScan
    /\ UNCHANGED <<cfg, entity_id, remove_errors, run, abort, existing_ids,
                   channel, stream, tasks, wpc, semaphore, download_count,
                   files, db0, prev, repoVars, ops, applied>>

\* M_ScanRaise as it would be were the exception to end download_and_save
M_ScanRaise_Returns ==
    /\ mainpc = "scan"
    /\ scan' = "raised"
    /\ mainpc' = "finally"
    /\ UNCHANGED <<cfg, entity_id, remove_errors, run, abort, existing_ids,
                   channel, stream, tasks, wpc, semaphore, download_count,
                   files, db0, prev, repoVars, ops, applied>>

\* iter_messages raises: the except branch logs it and the code after the
\* loop runs
M_ScanRaise ==
    /\ mainpc = "scan"
    /\ scan' = "raised"
    /\ mainpc' = AfterScan
    /\ UNCHANGED <<cfg, entity_id, remove_errors, run, abort, existing_ids,
                   channel, stream, tasks, wpc, semaphore, download_count,
                   files, db0, prev, repoVars, ops, applied>>

\* gather returns once every task has returned; the summary is logged
M_Summary ==
    /\ mainpc = "gather"
    /\ \A w \in Workers : wpc[w] \in {"True", "False"}
    /\ download_count' = Cardinality({w \in Workers : wpc[w] = "True"})
    /\ mainpc' = "finally"
    /\ UNCHANGED <<cfg, entity_id, remove_errors, run, abort, existing_ids,
                   channel, stream, scan, tasks, wpc, semaphore, files, db0,
                   prev, repoVars, ops, applied>>

\* M_Finally as it would be were main to end without its finally block
M_Finally_SkipsClose ==
    /\ mainpc = "finally"
    /\ mainpc' = "done"
    /\ UNCHANGED <<cfg, entity_id, remove_errors, run, abort, existing_ids,
                   channel, stream, scan, tasks, wpc, semaphore,
                   download_count, files, db0, prev, repoVars, ops, applied>>

\* main's finally: close_conn is entered
M_Finally ==
    /\ mainpc = "finally"
    /\ mainpc' = "close_conn"
    /\ EnterLock(Main, "close", <<>>)
    /\ UNCHANGED <<cfg, entity_id, remove_errors, run, abort, existing_ids,
                   channel, stream, scan, tasks, wpc, semaphore,
                   download_count, files, db0, prev, db, txn, _conn, opened,
                   connSeq, ops, applied>>

\* close_conn has returned: the process ends
M_CloseReturn ==
    /\ mainpc = "close_conn"
    /\ rcall[Main].pc = "ret"
    /\ rcall' = [rcall EXCEPT ![Main] = IdleCall]
    /\ mainpc' = "done"
    /\ UNCHANGED <<cfg, entity_id, remove_errors, run, abort, existing_ids,
                   channel, stream, scan, tasks, wpc, semaphore,
                   download_count, files, db0, prev, db, txn, _conn, _lock,
                   opened, connSeq, connectRuns, ops, applied>>

\* run.py is started again: a new process, with a new repository object, on
\* the same database file, directories and message stream
M_NextRun ==
    /\ mainpc = "done"
    /\ run < MaxRuns
    /\ run' = run + 1
    /\ mainpc' = "start"
    /\ abort' = None
    /\ existing_ids' = {}
    /\ channel' = <<>>
    /\ stream' = <<>>
    /\ scan' = "idle"
    /\ tasks' = <<>>
    /\ wpc' = <<>>
    /\ semaphore' = 0
    /\ download_count' = 0
    /\ remove_errors' = {}
    /\ db0' = db
    /\ prev' = [stream |-> stream, replay |-> TRUE,
                clean |-> /\ abort = None
                          /\ scan = "ended"
                          /\ \A w \in Workers : wpc[w] = "True"]
    /\ txn' = {}
    /\ _conn' = NoConn
    /\ _lock' = <<>>
    /\ opened' = {}
    /\ connSeq' = 0
    /\ connectRuns' = 0
    /\ rcall' = [c \in CallerIds |-> IdleCall]
    /\ UNCHANGED <<cfg, entity_id, files, db, ops, applied>>

\* ------------------------------------------------------ repository harness

\* the record harness caller c writes
HarnessRow(c) ==
    [id |-> <<0, c>>,
     channel_id |-> 42,
     message_id |-> StrInt(c),
     text |-> <<>>,
     filename |-> Abspath(PathJoin(VideoDir,
                     MakeFileId(42, [id |-> c], [id |-> 9]) \o <<".", "mp4">>))]

HarnessCallers == 1..NumCallers

HarnessArg(c, op) ==
    CASE op = "write" -> <<HarnessRow(c)>>
      [] op = "get_ids" -> <<42>>
      [] OTHER -> <<>>

\* a caller invokes open_conn, write, get_video_ids or close_conn
H_Invoke(c, op) ==
    /\ mainpc = "harness"
    /\ rcall[c].pc = "idle"
    /\ ops < MaxOps
    /\ ops' = ops + 1
    /\ EnterLock(c, op, HarnessArg(c, op))
    /\ UNCHANGED <<appVars, db, txn, _conn, opened, connSeq, applied>>

\* the call returns or raises to its caller
H_Return(c) ==
    /\ mainpc = "harness"
    /\ rcall[c].pc = "ret"
    /\ rcall' = [rcall EXCEPT ![c] = IdleCall]
    /\ UNCHANGED <<appVars, db, txn, _conn, _lock, opened, connSeq,
                   connectRuns, ops, applied>>

\* ---------------------------------------------------------- specifications

Configs ==
    [download_video : BOOLEAN, download_audio : BOOLEAN,
     key_words : KeyWordSets, download_at_same_time_size : 1..MaxCap,
     channel_id : ChannelIds]

\* what an earlier run that resolved the channel to entity e has left of
\* MsgBoth's video
EarlierRow(c, e) ==
    [id |-> <<0, 1>>,
     channel_id |-> e,
     message_id |-> StrInt(MsgBoth.id),
     text |-> MsgBoth.text,
     filename |-> Abspath(OutFile(VideoTask(c, MsgBoth, 1)))]

InitRest ==
    /\ run = 1
    /\ abort = None
    /\ existing_ids = {}
    /\ channel = <<>>
    /\ stream = <<>>
    /\ scan = "idle"
    /\ tasks = <<>>
    /\ wpc = <<>>
    /\ semaphore = 0
    /\ download_count = 0
    /\ files = {r.filename : r \in db}
    /\ remove_errors = {}
    /\ txn = {}
    /\ _conn = NoConn
    /\ _lock = <<>>
    /\ opened = {}
    /\ connSeq = 0
    /\ rcall = [c \in CallerIds |-> IdleCall]
    /\ connectRuns = 0
    /\ db0 = db
    /\ prev = [stream |-> <<>>, replay |-> FALSE, clean |-> FALSE]
    /\ ops = 0

\* one run of run.py, on a database that is empty or holds an earlier run's
\* record
Init ==
    /\ cfg \in Configs
    /\ entity_id \in EntityIds
    /\ db \in (IF entity_id = cfg.channel_id
               THEN {{}, {EarlierRow(cfg, entity_id)}} ELSE {{}})
    /\ mainpc = "start"
    /\ applied = NotApplied
    /\ InitRest

AppNext ==
    \/ M_Start
    \/ M_OpenReturn
    \/ M_IdsReturn
    \/ \E outcome \in {"ok", "client", "channel"} : M_Connect(outcome)
    \/ \E msg \in Messages : M_ScanNext(msg)
    \/ M_ScanEnd
    \/ M_ScanRaise
    \/ M_Summary
    \/ M_Finally
    \/ M_CloseReturn
    \/ \E w \in Workers : W_Acquire(w)
    \/ \E w \in Workers : W_DownloadOk(w)
    \/ \E w \in Workers : \E partial, removed \in BOOLEAN :
            W_DownloadRaise(w, partial, removed)
    \/ \E w \in Workers : W_WriteOk(w)
    \/ \E w \in Workers : \E removed \in BOOLEAN : W_WriteRaised(w, removed)
    \/ \E c \in CallerIds : R_ConnectOk(c)
    \/ \E c \in CallerIds : R_ConnectRaise(c)
    \/ \E c \in CallerIds : R_Insert(c)
    \/ \E c \in CallerIds : R_Commit(c)
    \/ \E c \in CallerIds : R_WriteRaise(c)
    \/ \E c \in CallerIds : R_Select(c)
    \/ \E c \in CallerIds : R_SelectRaise(c)
    \/ \E c \in CallerIds : R_CloseDone(c)

Next == AppNext

Spec == Init /\ [][Next]_vars

\* the steps of main() and download_and_save
MainStep ==
    \/ M_Start
    \/ M_OpenReturn
    \/ M_IdsReturn
    \/ \E outcome \in {"ok", "client", "channel"} : M_Connect(outcome)
    \/ \E msg \in Messages : M_ScanNext(msg)
    \/ M_ScanEnd
    \/ M_ScanRaise
    \/ M_Summary
    \/ M_Finally
    \/ M_CloseReturn

\* the steps of the coroutine of task w
WorkerStep(w) ==
    /\ w \in Workers
    /\ \/ W_Acquire(w)
       \/ W_DownloadOk(w)
       \/ \E partial, removed \in BOOLEAN : W_DownloadRaise(w, partial, removed)
       \/ W_WriteOk(w)
       \/ \E removed \in BOOLEAN : W_WriteRaised(w, removed)

\* the steps of the pool thread serving caller c
ThreadStep(c) ==
    \/ R_ConnectOk(c)
    \/ R_ConnectRaise(c)
    \/ R_Insert(c)
    \/ R_Commit(c)
    \/ R_WriteRaise(c)
    \/ R_Select(c)
    \/ R_SelectRaise(c)
    \/ R_CloseDone(c)

\* One run, with video and audio enabled and no keywords on an empty
\* database, under the scheduling asyncio gives: the event loop runs every
\* coroutine that can go on, a released permit goes to a waiting worker, and
\* every awaited call (stream, download, pool thread) returns or raises.
InitFair ==
    /\ cfg \in {c \in Configs : c.download_video /\ c.download_audio
                                /\ c.key_words = {}}
    /\ entity_id \in ChannelIds
    /\ db = {}
    /\ mainpc = "start"
    /\ applied = NotApplied
    /\ InitRest

SpecFair ==
    /\ InitFair
    /\ [][Next]_vars
    /\ WF_vars(MainStep)
    /\ \A w \in 1..MaxWorkers : WF_vars(WorkerStep(w))
    /\ \A c \in CallerIds : WF_vars(ThreadStep(c))

\* the same run under the same scheduling, where a download_media call may
\* also never return
NextHang == Next \/ \E w \in Workers : W_DownloadHang(w)

SpecHang ==
    /\ InitFair
    /\ [][NextHang]_vars
    /\ WF_vars(MainStep)
    /\ \A w \in 1..MaxWorkers : WF_vars(WorkerStep(w))
    /\ \A c \in CallerIds : WF_vars(ThreadStep(c))

\* several runs of run.py in sequence over one unchanged message stream,
\* the first on an empty database
InitRuns ==
    /\ cfg \in Configs
    /\ entity_id \in EntityIds
    /\ db = {}
    /\ mainpc = "start"
    /\ applied = NotApplied
    /\ InitRest

NextRuns == AppNext \/ M_NextRun

SpecRuns == InitRuns /\ [][NextRuns]_vars

\* the repository alone, under callers that invoke its four operations in
\* any order and at any time
InitRepo ==
    /\ cfg \in {c \in Configs : c.download_video /\ c.download_audio
                                /\ c.key_words = {}
                                /\ c.download_at_same_time_size = 1}
    /\ entity_id = 42
    /\ db = {}
    /\ mainpc = "harness"
    /\ applied = NotApplied
    /\ InitRest

NextRepo ==
    \/ \E c \in HarnessCallers :
         \E op \in {"open", "write", "get_ids", "close"} : H_Invoke(c, op)
    \/ \E c \in HarnessCallers : H_Return(c)
    \/ \E c \in HarnessCallers : RepoStep(c)

SpecRepo == InitRepo /\ [][NextRepo]_vars

\* ------------------------------------------- functions applied on their own

\* the characters of the message texts tried: letters in both cases, the
\* blank and a punctuation mark
TextChars == {"y", "Y", "o", " ", ","}

Texts == UNION {[1..n -> TextChars] : n \in 0..MaxText}

\* the keywords a configuration may require, the empty string and one with
\* a blank among them
KeyWordPool == {<<"Y">>, <<"o">>, <<"Y", "o">>, <<"o", " ", "o">>, <<>>}

\* destination directories: relative, absolute, with a trailing separator,
\* with a dot in a component, empty
Directories ==
    {VideoDir, AudioDir, <<"v", "/">>, <<"d", ".", "x", "/", "e">>, <<>>}

\* file names a document's attributes may carry (<<>>: no such attribute)
FileNames ==
    {<<>>, <<"song", ".", "ogg">>, <<"a", ".", "tar", ".", "gz">>,
     <<"x", ".">>, <<".", "hidden">>, <<"noext">>,
     <<"d", ".", "e", "/", "f">>}

\* attachments: with or without an id, with or without a file name
Documents ==
    {[id |-> 9, attributes |-> <<[kind |-> "media"]>>]}
    \cup {[id |-> 9, attributes |-> <<[kind |-> "media"],
                                      [kind |-> "filename", file_name |-> f]>>]
             : f \in FileNames \ {<<>>}}
    \cup {[attributes |-> <<[kind |-> "filename", file_name |-> f]>>]
             : f \in FileNames \ {<<>>}}

\* the calls tried: _message_contains_all_keywords with a configuration's
\* key_words and a message's text, and the path from an attachment to the
\* identifier the repository reads back
PureCalls ==
    {[fn |-> "call _message_contains_all_keywords",
      args |-> <<key_words, text>>, out |-> <<>>] :
        key_words \in SUBSET KeyWordPool, text \in Texts}
    \cup
    {[fn |-> "call _get_video_ids_sync",
      args |-> <<directory, channel_id, [id |-> 7], obj, default_extension>>,
      out |-> <<>>] :
        directory \in Directories, channel_id \in {42, -1001},
        obj \in Documents, default_extension \in {<<"mp4">>, <<"mp3">>}}

\* _message_contains_all_keywords returns
P_MessageContainsAllKeywords ==
    /\ mainpc = "pure"
    /\ applied.fn = "call _message_contains_all_keywords"
    /\ applied' =
          [fn |-> "_message_contains_all_keywords",
           args |-> applied.args,
           out |-> MessageContainsAllKeywords([key_words |-> applied.args[1]],
                                              [text |-> applied.args[2]])]
    /\ UNCHANGED <<appVars, repoVars, ops>>

\* an identifier and an extension are derived for an attachment, the record's
\* filename is made of them as the worker makes it, and the identifier load
\* reads the identifiers back from the row
P_StoredIdentifier ==
    /\ mainpc = "pure"
    /\ applied.fn = "call _get_video_ids_sync"
    /\ LET directory == applied.args[1]
           channel_id == applied.args[2]
           file_id == MakeFileId(channel_id, applied.args[3], applied.args[4])
           extension ==
               ExtractFileExtensionOrGetDefault(applied.args[4],
                                                applied.args[5])
           filename ==
               Abspath(OutFile([directory |-> directory, file_id |-> file_id,
                                extension |-> extension]))
       IN  applied' =
             [fn |-> "_get_video_ids_sync",
              args |-> <<directory, file_id, extension>>,
              out |-> IdsOfRows({[channel_id |-> channel_id,
                                  filename |-> filename]}, channel_id)]
    /\ UNCHANGED <<appVars, repoVars, ops>>

InitPure ==
    /\ cfg \in {c \in Configs : c.download_video /\ c.download_audio
                                /\ c.key_words = {}
                                /\ c.download_at_same_time_size = 1}
    /\ entity_id = 42
    /\ db = {}
    /\ mainpc = "pure"
    /\ applied \in PureCalls
    /\ InitRest

NextPure == P_MessageContainsAllKeywords \/ P_StoredIdentifier

SpecPure == InitPure /\ [][NextPure]_vars

\* ------------------------------------------------------------- properties

\* the workers inside the "async with semaphore" block
InsideSemaphore ==
    {w \in Workers : wpc[w] \in {"downloading", "writing", "hung"}}

\* C1: at every moment the number of workers inside the semaphore-guarded
\* section (downloading, persisting or cleaning up) is at most the
\* configured download_at_same_time_size.
C1_BoundedConcurrency ==
    Cardinality(InsideSemaphore) <= cfg.download_at_same_time_size

\* C1 witness: the section is full and a started worker is kept out of it.
C1_Witness_FullWithWaiter ==
    /\ mainpc = "gather"
    /\ Cardinality(InsideSemaphore) = cfg.download_at_same_time_size
    /\ \E w \in Workers : wpc[w] = "pending"

\* the identifier the repository reads from a row's filename
RowIdentifier(r) == Splitext(Basename(r.filename))[1]

\* C2: for every identifier the repository holds at most one record whose
\* filename (base name without extension) is that identifier, after any
\* number of runs and also when one scan yields the identifier twice.
C2_AtMostOneRecordPerIdentifier ==
    \A r1, r2 \in db : RowIdentifier(r1) = RowIdentifier(r2) => r1 = r2

\* C3: a run that follows a complete, failure-free run over the same message
\* stream and repository downloads nothing: no worker returns True and no
\* record is added.
C3_SecondRunDownloadsNothing ==
    (run > 1 /\ prev.clean) =>
        /\ \A w \in Workers : wpc[w] # "True"
        /\ db = db0

\* C4 as claimed: once a worker has returned False there is no file at its
\* destination path.
C4_NoFileAfterFailure ==
    \A w \in Workers : wpc[w] = "False" => Dest(w) \notin files

\* C4 as amended: when a worker returns False, at that moment there is no
\* file at its destination path unless os.remove raised, which is logged.
C4_NoFileUnlessRemoveFailed ==
    [][\A w \in Workers :
          (wpc[w] # "False" /\ wpc'[w] = "False") =>
              (Dest(w) \notin files' \/ w \in remove_errors')]_vars

\* C4 witness: a worker whose download succeeded and whose commit raised has
\* returned False, and its file is gone without a logged removal error.
C4_Witness_WriteFailedFileRemoved ==
    \E w \in Workers :
        /\ wpc[w] = "False"
        /\ \E r \in txn : r.id = <<run, w>>
        /\ Dest(w) \notin files
        /\ w \notin remove_errors

\* the callers whose thread is at work on the connection: connecting,
\* between the INSERT and the commit of a write, or closing
ExecutingOnConnection ==
    {c \in CallerIds : rcall[c].pc \in {"connecting", "inserted", "closing"}}

\* C5: at most one repository operation is executing on the connection at
\* any moment.
C5_ConnectionAccessSerialized == Cardinality(ExecutingOnConnection) <= 1

\* C6 as claimed: _connect_and_init_db runs exactly once however many
\* callers find the repository without a connection.
C6_ConnectRunsOnce == connectRuns <= 1

\* C6 as amended: _connect_and_init_db never runs twice at a time, runs only
\* under the lock and only while there is no connection (so never again
\* once a run has succeeded, until close_conn), at most one connection is
\* open at any time, and every caller holding an open connection holds the
\* repository's one.
C6_ConnectOnceAtATime ==
    /\ Cardinality({c \in CallerIds : rcall[c].pc = "connecting"}) <= 1
    /\ \A c \in CallerIds :
          rcall[c].pc = "connecting" => (_conn = NoConn /\ _lock = <<c>>)
    /\ Cardinality(opened) <= 1
    /\ _conn # NoConn => opened = {_conn}
    /\ \A c \in CallerIds : rcall[c].conn \in opened => rcall[c].conn = _conn
    /\ (\E c \in CallerIds : rcall[c].conn \in opened) => connectRuns >= 1

\* C6 witness: one caller has returned from open_conn with the connection
\* its run of _connect_and_init_db made, while another, who called in the
\* meantime, still waits for the lock; the connect has run once.
C6_Witness_SecondCallerWaited ==
    \E c1, c2 \in CallerIds :
        /\ c1 # c2
        /\ rcall[c1].pc = "ret" /\ rcall[c1].op = "open"
        /\ rcall[c1].ret = "ok" /\ rcall[c1].conn = _conn
        /\ rcall[c2].pc = "lock_wait"
        /\ rcall[c2].op \in {"open", "write", "get_ids"}
        /\ _conn # NoConn
        /\ connectRuns = 1

\* the media kinds the configuration enables
EnabledKinds ==
    {k \in {"video", "audio"} :
        IF k = "video" THEN cfg.download_video ELSE cfg.download_audio}

Attachment(msg, kind) == IF kind = "video" THEN msg.video ELSE msg.audio

\* the spec's eligibility of a message's attachment of a kind
Eligible(msg, kind) ==
    /\ Attachment(msg, kind) # <<>>
    /\ MessageContainsAllKeywords(cfg, msg)
    /\ MakeFileId(cfg.channel_id, msg, Attachment(msg, kind)[1])
          \notin existing_ids

\* a coroutine was appended for the i-th message's attachment of a kind
Scheduled(i, kind) ==
    \E t \in 1..Len(tasks) : tasks[t].pos = i /\ tasks[t].media = kind

\* C7: for every scanned message and every enabled media kind a worker is
\* scheduled if and only if the message carries an attachment of that kind,
\* matches the keywords and has an identifier not among the existing ones.
C7_ScheduledIffEligible ==
    \A i \in 1..Len(stream) : \A kind \in EnabledKinds :
        Scheduled(i, kind) <=> Eligible(stream[i], kind)

\* the session has logged its summary with every worker returned
SessionSummarised ==
    /\ mainpc \in {"finally", "close_conn", "done"}
    /\ tasks # <<>>
    /\ \A w \in Workers : wpc[w] \in {"True", "False"}

\* C8: every scheduled worker resolves to one boolean outcome that never
\* changes, and whatever fails in one worker, once gather has started the
\* workers every one of them returns and the session reaches its summary
\* (every awaited call returning).
C8_FailureIsContained ==
    /\ [][\A w \in Workers :
            wpc[w] \in {"True", "False"} => wpc'[w] = wpc[w]]_vars
    /\ (mainpc = "gather") ~> SessionSummarised
    /\ \A w \in 1..MaxWorkers :
          (w \in Workers /\ wpc[w] = "False") ~> SessionSummarised

\* C8 witness: the session has ended with one worker failed and a sibling
\* succeeded.
C8_Witness_SiblingSucceeded ==
    /\ mainpc = "done"
    /\ download_count = 1
    /\ \E w, v \in Workers : wpc[w] = "False" /\ wpc[v] = "True"

\* C9: when a session-start step fails (opening the repository, loading the
\* identifiers, starting the client, resolving the channel) no message is
\* examined, no worker scheduled, no download started and no record written.
C9_AbortExaminesNothing ==
    abort # None =>
        /\ stream = <<>> /\ scan = "idle"
        /\ tasks = <<>> /\ wpc = <<>>
        /\ db = db0 /\ txn = {}

\* C9 witness: a session whose channel could not be resolved has ended.
C9_Witness_AbortedSession == abort = "channel" /\ mainpc = "done"

\* C10: once iterating the stream has raised, no further message is scanned
\* and no further candidate scheduled, and the session ends only after each
\* worker scheduled before has returned.
C10_RaisedScanKeepsScheduled ==
    /\ [][(scan = "raised" /\ run' = run) =>
            (stream' = stream /\ tasks' = tasks)]_vars
    /\ []((scan = "raised" /\ mainpc \in {"finally", "close_conn", "done"})
            => \A w \in Workers : wpc[w] \in {"True", "False"})

\* C10 witness: the stream raised after a first message had scheduled
\* candidates, and the session has ended.
C10_Witness_RaisedAfterScheduling ==
    /\ scan = "raised"
    /\ mainpc = "done"
    /\ Len(stream) = 1
    /\ tasks # <<>>

\* C11: on every path by which main finishes (normal completion, per-item
\* failures, session-start abort, an exception escaping download_and_save)
\* the repository holds no connection and none it opened is still open.
C11_ConnectionReleasedAtExit ==
    mainpc = "done" => (_conn = NoConn /\ opened = {})

\* C11 witness: main has finished a session that opened a connection and in
\* which a worker failed.
C11_Witness_ClosedAfterFailure ==
    /\ mainpc = "done"
    /\ connSeq = 1
    /\ opened = {}
    /\ \E w \in Workers : wpc[w] = "False"

\* C12: once gather has started the workers, every worker whose own calls
\* return is eventually admitted and reaches True or False, even when another
\* worker's download never returns.
C12_HangBlocksOnlyItself ==
    \A w \in 1..MaxWorkers :
        (mainpc = "gather" /\ w \in Workers)
            ~> (w \in Workers /\ wpc[w] \in {"True", "False", "hung"})

\* C13: close_conn on a repository without a connection returns without
\* raising and changes nothing; a returning close_conn always leaves no
\* connection; and conn.close() runs only under the lock, one at a time, on
\* the repository's connection while it is open, so a second close_conn in
\* a row never closes it again.
C13_CloseIdempotent ==
    /\ [][\A c \in CallerIds :
            (/\ rcall[c].pc \in {"idle", "lock_wait"}
             /\ rcall'[c].op = "close"
             /\ rcall'[c].pc \notin {"idle", "lock_wait"}
             /\ _conn = NoConn)
            => (/\ rcall'[c].pc = "ret" /\ rcall'[c].ret = "ok"
                /\ UNCHANGED <<db, txn, _conn, _lock, opened, connSeq>>)]_vars
    /\ [][\A c \in CallerIds :
            (rcall'[c].op = "close" /\ rcall[c].pc # "ret"
             /\ rcall'[c].pc = "ret")
            => (rcall'[c].ret = "ok" /\ _conn' = NoConn)]_vars
    /\ [](\A c \in CallerIds :
            rcall[c].pc = "closing"
            => (/\ _lock = <<c>>
                /\ rcall[c].conn = _conn
                /\ _conn \in opened))

\* C13 witness: two close_conn calls have returned after one connection was
\* opened, and the repository holds no connection.
C13_Witness_ClosedTwice ==
    \E c1, c2 \in CallerIds :
        /\ c1 # c2
        /\ rcall[c1].pc = "ret" /\ rcall[c1].op = "close"
        /\ rcall[c2].pc = "ret" /\ rcall[c2].op = "close"
        /\ connSeq = 1
        /\ _conn = NoConn /\ opened = {}

\* the pairs of characters str.lower identifies
CasePairs == {<<"Y", "y">>, <<"O", "o">>, <<"H", "h">>, <<"I", "i">>}

\* two strings equal but for the case of their letters
SameIgnoringCase(a, b) ==
    /\ Len(a) = Len(b)
    /\ \A i \in 1..Len(a) :
          a[i] = b[i] \/ <<a[i], b[i]>> \in CasePairs
                     \/ <<b[i], a[i]>> \in CasePairs

\* text[i..j] is a run of characters of the set inside, as long as can be
RunAt(text, i, j, inside) ==
    /\ i <= j
    /\ \A k \in i..j : text[k] \in inside
    /\ (i = 1 \/ text[i - 1] \notin inside)
    /\ (j = Len(text) \/ text[j + 1] \notin inside)

\* keyword k is, but for case, one of the runs of such characters of text
AppearsAsRun(k, text, inside) ==
    \E i, j \in 1..Len(text) :
        RunAt(text, i, j, inside) /\ SameIgnoringCase(SubSeq(text, i, j), k)

\* what the claim says the keyword test returns, a word being a run of the
\* characters of the set inside
KeywordsExpected(key_words, text, inside) ==
    IF key_words = {} THEN TRUE
    ELSE IF text = <<>> THEN FALSE
    ELSE \A k \in key_words : AppearsAsRun(k, text, inside)

C17_IdentifierRoundTrip ==
    applied.fn = "_get_video_ids_sync" => applied.out = {applied.args[2]}

\* C17 witness: the identifier of an id-less attachment of a channel with a
\* negative id, stored under a directory with a dot in its name with the
\* extension of a file name of two extensions, was read back.
C17_Witness_DottedPathReadBack ==
    /\ applied.fn = "_get_video_ids_sync"
    /\ applied.args[1] = <<"d", ".", "x", "/", "e">>
    /\ applied.args[2] = <<"-", "1", "0", "0", "1", ".", "7", ".", "unknown">>
    /\ applied.args[3] = <<"gz">>
    /\ applied.out = {applied.args[2]}

\* the rows that carry the record of worker w of this run
RowsOf(w) == {r \in db : r.id = <<run, w>>}

\* C15: a worker's write is under way only after its download succeeded; a
\* worker that has returned True has its record committed; and a worker that
\* has returned False has no record of its candidate in the repository.
C15_TrueIffCommitted ==
    \A w \in Workers :
        /\ rcall[w].pc # "idle" => wpc[w] = "writing"
        /\ wpc[w] = "True" => FileRecord(w) \in db
        /\ wpc[w] = "False" => RowsOf(w) = {}

\* the rows this session has added
AddedRows == db \ db0

\* C16: every record a session writes carries the configured channel_id, so
\* that the identifier load for the configured channel_id returns the
\* identifier of every record the session wrote.
C16_RecordsCarryConfiguredChannel ==
    /\ \A r \in AddedRows \cup txn : r.channel_id = cfg.channel_id
    /\ {RowIdentifier(r) : r \in AddedRows}
          \subseteq IdsOfRows(db, cfg.channel_id)

\* C18: existing_ids is assigned only by the one return of get_files_ids,
\* before any message is scanned or task scheduled, and get_files_ids is
\* called only then; no later step of the session (scheduling, download,
\* write) changes it.
C18_ExistingIdsLoadedOnce ==
    /\ [][existing_ids' # existing_ids =>
            /\ mainpc = "get_files_ids" /\ mainpc' = "client"
            /\ scan = "idle" /\ stream = <<>> /\ tasks = <<>>]_vars
    /\ [][mainpc' = "get_files_ids" =>
            mainpc \in {"open_conn", "get_files_ids"}]_vars
    /\ [](\A c \in CallerIds :
            (rcall[c].op = "get_ids" /\ rcall[c].pc # "idle")
            => (c = Main /\ mainpc = "get_files_ids"))

\* C18 witness: a session that loaded a non-empty identifier set has ended
\* after a worker downloaded a file and wrote its record.
C18_Witness_LoadedSetKept ==
    /\ mainpc = "done"
    /\ existing_ids # {}
    /\ \E w \in Workers : wpc[w] = "True"
    /\ AddedRows # {}

\* C19: at the end of a session that was not aborted the reported count is
\* the number of workers that returned True and the number of records the
\* session added to the repository.
C19_CountEqualsRecordsAdded ==
    (mainpc = "done" /\ abort = None) =>
        /\ download_count = Cardinality({w \in Workers : wpc[w] = "True"})
        /\ download_count = Cardinality(AddedRows)

\* C20: at the end of a session every record in the repository has a file at
\* its stored path.
C20_EveryRecordHasItsFile ==
    mainpc = "done" => \A r \in db : r.filename \in files

\* C21: while the scan has not finished or raised, every scheduled worker is
\* still unstarted (no permit taken, no download begun, no write under way);
\* workers are collected only during the scan; and a worker starts only
\* after the scan has ended or raised, once gather runs.
C21_NoDownloadDuringScan ==
    /\ [](scan \in {"idle", "open"} =>
            /\ \A w \in Workers : wpc[w] = "pending" /\ rcall[w].pc = "idle"
            /\ scan = "open" => semaphore = cfg.download_at_same_time_size)
    /\ [][tasks' # tasks => (mainpc = "scan" /\ scan = "open")]_vars
    /\ [][\A w \in Workers :
            (wpc[w] = "pending" /\ wpc'[w] # "pending")
            => (scan \in {"ended", "raised"} /\ mainpc = "gather")]_vars

\* C21 witness: the scan is still open with as many workers collected as a
\* stream may schedule, none of them started.
C21_Witness_CollectedNotStarted ==
    /\ mainpc = "scan"
    /\ scan = "open"
    /\ Len(tasks) = MaxTasks
    /\ \A w \in Workers : wpc[w] = "pending"

====
